---- MODULE Spec2Model ----
(***************************************************************************)
(* A model of the Quanfal crafting bot (lesvord/botik): the guarded input  *)
(* primitives of UIController, Navigation.rotate_camera_until, the         *)
(* Blacksmithing crafting cycle with its dismantling branch, and the       *)
(* orchestration loop of core.run_bot.  Two threads exist: the worker      *)
(* (run_bot and everything it calls) and the hotkey thread that writes the *)
(* stop and pause events.  Time is counted in ticks of 0.05 s.             *)
(***************************************************************************)
EXTENDS Integers, Sequences, FiniteSets, TLC

\* ------------------------------------------------------------ bounds
\* number of ItemConfig entries in config.items
MaxItems == 2
\* the timeout argument of rotate_camera_until, in ticks (the call sites pass
\* 8.0 s; the model runs the same loop with a shorter timeout)
RotTimeout == 20
\* positions one find_items_by_template scan returns at most
MaxMatches == 2
\* ticks the capture and the text check of one iteration take at most
MaxOcrTime == 2
\* columns of the correlation map cv2.matchTemplate returns (it has two rows)
GridW == 2
\* columns of the icon detect_item_grade is given (it has two rows)
ImgW == 2
\* boxes in the data pytesseract.image_to_data returns
MaxWords == 2

\* ------------------------------------------------- program constants
PauseSleep == 1
DragDuration == 6
PollInterval == 10
RecipeScrollAttempts == 6
OutputSlots == 6
DismantleAttempts == 3
BrightnessThreshold == 80

\* ---------------------------------------------------------- variables
VARIABLES
    stop, pause,                 \* threading.Event stop_event, pause_event
    hasPyautogui, hasOcr,        \* _has_pyautogui; _has_pytesseract / _has_ocr
    hotkeysOk,                   \* whether keyboard.add_hotkey succeeded
    order, enabled, nItems,      \* professions_order, professions_enabled, len(items)
    pc,                          \* where the worker is (a label or a call site)
    gpc,                         \* where the worker is inside a UIController primitive
    exc,                         \* the exception a primitive raised / that propagates
    midx,                        \* index of run_bot's for loop over modules
    item,                        \* index of run_cycle's for loop over items
    target, timeout, elapsed,    \* rotate_camera_until: keyword, timeout, time.time()-start
    attempt, slot, bagFull, grade, positions,   \* loop variables of the helper methods
    clicked,                     \* the positions right-clicked for the grade being scanned
    logged,                      \* the message the worker's last step logged
    caught,                      \* the exception the worker's last step caught
    \* history variables, written only to state properties
    callStop, blocked, stopInWait, pausedSince, sleepsAfterClear,
    notFoundCause, dismantledItem, acquired, rcAborted, stopPhase,
    iters, rotBlocked, hfiKeys, trail, ran,
    actsAfterStop,               \* device actions performed since Stop was set (up to 2)
    lastAct, trigs,              \* the last action issued for the item; craft triggers since the last collect round
    \* one call of an ImageRecognition method: the method, its arguments, the
    \* value it returned and the exception it raised
    vfn, vin, vret, vexc

ctl == <<stop, pause>>
cfg == <<hasPyautogui, hasOcr, hotkeysOk, order, enabled, nItems>>
rotv == <<target, timeout, elapsed, iters, rotBlocked>>
loopv == <<attempt, slot, bagFull, grade, positions, clicked>>
gcyc == <<notFoundCause, dismantledItem, acquired, hfiKeys, lastAct, trigs, trail>>
vis == <<vfn, vin, vret, vexc>>
gguard == <<callStop, blocked, stopInWait, pausedSince, sleepsAfterClear>>
vars == <<stop, pause, hasPyautogui, hasOcr, hotkeysOk, order, enabled, nItems,
          pc, gpc, exc, midx, item, target, timeout, elapsed,
          attempt, slot, bagFull, grade, positions, clicked, logged, caught,
          callStop, blocked, stopInWait, pausedSince, sleepsAfterClear,
          notFoundCause, dismantledItem, acquired, rcAborted, stopPhase,
          iters, rotBlocked, hfiKeys, lastAct, trigs, trail, ran, actsAfterStop,
          vfn, vin, vret, vexc>>

Min(a, b) == IF a < b THEN a ELSE b

\* time.time() - start is counted up to this value (a Pause may add any time)
ElapsedCap == timeout + DragDuration + MaxOcrTime + PollInterval

\* ------------------------------------------------------ configuration
Professions == {"blacksmithing", "jeweling", "tailoring"}

\* the configurations the model starts from: professions_order and
\* professions_enabled
Configs == { << <<"tailoring", "blacksmithing", "jeweling">>,
                [p \in Professions |-> TRUE] >>,
             << <<"unknown", "jeweling", "blacksmithing">>,
                [p \in Professions |-> p = "jeweling"] >>,
             << <<"jeweling", "blacksmithing">>, [p \in Professions |-> FALSE] >> }
\* an instantiation that ignores professions_enabled
InstantiateKnown(ord, en) == SelectSeq(ord, LAMBDA p : p \in Professions)

\* core.instantiate_modules: the known and enabled professions, in order
InstantiateModules(ord, en) ==
    SelectSeq(ord, LAMBDA p : p \in Professions /\ p \in DOMAIN en /\ en[p])

modules == InstantiateModules(order, enabled)

\* grade_preferences keys in dict order
GradeOrder == <<"seryj", "zelenyj", "sinij">>

\* ItemConfig i: triggers (img.item_triggers[i]), a "create" grade icon,
\* grade_preferences and the grade templates loaded for it (img.item_templates[i])
HasItemTrigger(i) == i % 2 = 1
HasCreateTrigger(i) == i % 2 = 1
HasEmptySlotTrigger(i) == i % 2 = 1
HasCreateIcon(i) == i % 2 = 0
GradePrefs(i) ==
    IF i % 2 = 1
    THEN [g \in {"seryj", "zelenyj", "sinij"} |-> g # "seryj"]
    ELSE [g \in {"seryj", "zelenyj", "sinij"} |-> g = "zelenyj"]
ItemTemplates(i) ==
    IF i % 2 = 1
    THEN [g \in {"seryj", "zelenyj", "sinij"} |-> g # "sinij"]
    ELSE [g \in {"seryj", "zelenyj", "sinij"} |-> FALSE]

\* ---------------------------------------------------------- exceptions
\* RuntimeError: raised by _guard ("Bot stopped"); NotImplementedError: the
\* input backend is missing; Exception: any other error of a device call
ExceptionClasses == {"RuntimeError", "NotImplementedError", "Exception"}

\* ------------------------------------------------------------- sites
RotSites == {"rot_move", "rot_drag", "rot_shot"}
SelectSites == {"sr_tshot", "sr_tclick", "sr_shot", "sr_click", "sr_scroll"}
CraftSites == {"sc_tshot", "sc_tclick", "sc_oshot", "sc_oclick",
               "sc_fshot", "sc_fclick", "sc_press"}
CollectSites == {"col_click", "col_shot"}
FullInvSites == {"hfi_esc", "hfi_e", "hfi_i", "hfi_esc2"}
DismantleSites == {"dm_shot", "dm_scroll", "dm_click"}
Sites == RotSites \cup {"open_press"} \cup SelectSites \cup CraftSites
         \cup CollectSites \cup FullInvSites \cup DismantleSites

\* the calls that trigger a craft (the click or key press of start_craft)
CraftTriggers == {"sc_tclick", "sc_oclick", "sc_fclick", "sc_press"}

\* the kind of action a call of run_cycle's crafting steps issues: the
\* interaction key press, an action of select_recipe, a craft trigger of
\* start_craft, a right-click of a collect round
ActionKind(l) ==
    IF l = "open_press" THEN "open"
    ELSE IF l \in SelectSites THEN "recipe"
    ELSE IF l \in CraftTriggers THEN "trigger"
    ELSE IF l = "col_click" THEN "collect"
    ELSE "other"

\* labels inside Blacksmithing.run_cycle (an item is being processed)
CycleLabels == {"rot_while", "rot_ocr", "sr_for", "sc_begin", "col_for",
                "dm_grade", "dm_for"}
InRunCycle == pc \in Sites \cup CycleLabels \cup {"rc_for"}

\* the state of the crafting cycle the worker is in
Phase ==
    CASE pc \in RotSites \cup {"rot_while", "rot_ocr"} ->
            IF target = "forge" THEN "rotating" ELSE "dismantling"
      [] pc = "open_press" -> "opening"
      [] pc \in SelectSites \cup {"sr_for"} -> "selecting"
      [] pc \in CraftSites \cup {"sc_begin"} -> "crafting"
      [] pc \in CollectSites \cup {"col_for"} -> "collecting"
      [] pc \in FullInvSites \cup DismantleSites \cup {"dm_grade", "dm_for"} -> "dismantling"
      [] pc = "delay" -> "delay"
      [] OTHER -> "orchestrator"

\* ------------------------------------------------------ control moves
\* the worker calls a UIController primitive at call site s
Call(s) ==
    /\ pc' = s /\ gpc' = "enter" /\ exc' = "none"
    /\ callStop' = stop
    /\ pausedSince' = (pause /\ ~stop)
    /\ blocked' = FALSE /\ stopInWait' = FALSE /\ sleepsAfterClear' = 0

\* the worker moves to label l, outside any primitive
Goto(l) ==
    /\ pc' = l /\ gpc' = "none" /\ exc' = "none"
    /\ callStop' = FALSE /\ pausedSince' = FALSE
    /\ blocked' = FALSE /\ stopInWait' = FALSE /\ sleepsAfterClear' = 0

\* exception e leaves Blacksmithing.run_cycle
RaiseOut(e) ==
    /\ pc' = "rc_raised" /\ gpc' = "none" /\ exc' = e
    /\ callStop' = FALSE /\ pausedSince' = FALSE
    /\ blocked' = FALSE /\ stopInWait' = FALSE /\ sleepsAfterClear' = 0

\* ------------------------------------------------------------- Init
ProgInit ==
    /\ stop = FALSE /\ pause = FALSE
    /\ hasPyautogui \in BOOLEAN /\ hasOcr \in BOOLEAN
    /\ hotkeysOk \in BOOLEAN
    /\ \E c \in Configs : order = c[1] /\ enabled = c[2]
    /\ nItems \in 1..MaxItems
    /\ pc = "gui" /\ gpc = "none" /\ exc = "none"
    /\ midx = 0 /\ item = 0
    /\ target = "none" /\ timeout = 0 /\ elapsed = 0
    /\ attempt = 0 /\ slot = 0 /\ bagFull = FALSE /\ grade = 0 /\ positions = <<>> /\ clicked = {}
    /\ logged = "none" /\ caught = "none"
    /\ callStop = FALSE /\ blocked = FALSE /\ stopInWait = FALSE
    /\ pausedSince = FALSE /\ sleepsAfterClear = 0
    /\ notFoundCause = "none" /\ dismantledItem = 0 /\ acquired = FALSE
    /\ rcAborted = FALSE /\ stopPhase = "none"
    /\ iters = 0 /\ rotBlocked = FALSE /\ hfiKeys = 0 /\ lastAct = "none" /\ trigs = 0 /\ actsAfterStop = 0
    /\ trail = <<>> /\ ran = <<>>

\* the state after construction: no ImageRecognition call is being examined
Init ==
    /\ ProgInit
    /\ vfn = "none" /\ vin = <<>> /\ vret = <<>> /\ vexc = "none"

\* ------------------------------------------------- the hotkey thread
HotkeysLive ==
    hotkeysOk /\ pc \notin {"gui", "hotkeys", "returned", "crashed"}

\* stop_bot (F12)
SetStop ==
    /\ HotkeysLive
    /\ stop' = TRUE
    /\ stopInWait' = (stopInWait \/ (~stop /\ blocked /\ gpc \in {"pause", "pstop", "sleep"}))
    /\ stopPhase' = IF stop THEN stopPhase ELSE Phase
    /\ UNCHANGED <<pause, cfg, vis, actsAfterStop, pc, gpc, exc, midx, item, rotv, loopv, logged, caught,
                   callStop, blocked, pausedSince, sleepsAfterClear, gcyc, rcAborted, ran>>

\* a pause toggle that also resets the stop event
StopAfterToggleCleared == FALSE

\* toggle_pause sets or clears pause_event only: stop_event stays as it is
StopAfterToggle == stop

\* toggle_pause (F11)
TogglePause ==
    /\ HotkeysLive
    /\ pause' = ~pause
    /\ stop' = StopAfterToggle
    /\ pausedSince' = FALSE
    /\ sleepsAfterClear' = 0
    /\ UNCHANGED <<cfg, vis, actsAfterStop, pc, gpc, exc, midx, item, rotv, loopv, logged, caught,
                   callStop, blocked, stopInWait, gcyc, rcAborted, ran, stopPhase>>

\* Ctrl+C: KeyboardInterrupt is raised in the worker inside run_bot's try
CtrlC ==
    /\ pc \notin {"gui", "hotkeys", "kbint", "finally", "returned", "crashed"}
    /\ Goto("kbint")
    /\ caught' = "none" /\ logged' = "none"
    /\ UNCHANGED <<ctl, cfg, vis, actsAfterStop, midx, item, rotv, loopv, gcyc, rcAborted, ran, stopPhase>>
\* ------------------------------------------------------ UIController
\* a guard without its first check
GuardStopSkipped == FALSE

\* what _guard does at its first check when stop_event is set
GuardStopRaises == stop

\* a pause loop with its condition inverted
GuardPauseWaitsInverted == ~pause

\* the condition of _guard's while loop
GuardPauseWaits == pause

\* a pause loop that never looks at stop_event
GuardPauseStopIgnored == FALSE

\* what _guard does inside the pause loop when stop_event is set
GuardPauseStopRaises == stop

\* every primitive: if not _has_pyautogui: raise NotImplementedError
PrimEnter ==
    /\ gpc = "enter"
    /\ IF ~hasPyautogui
       THEN gpc' = "raised" /\ exc' = "NotImplementedError"
       ELSE gpc' = "stop" /\ exc' = exc
    /\ caught' = "none" /\ logged' = "none"
    /\ UNCHANGED <<ctl, cfg, vis, actsAfterStop, pc, midx, item, rotv, loopv, gguard, gcyc,
                   rcAborted, ran, stopPhase>>

\* _guard: if self.stop_event.is_set(): raise RuntimeError("Bot stopped")
GuardCheckStop ==
    /\ gpc = "stop"
    /\ IF GuardStopRaises
       THEN gpc' = "raised" /\ exc' = "RuntimeError"
       ELSE gpc' = "pause" /\ exc' = exc
    /\ caught' = "none" /\ logged' = "none"
    /\ UNCHANGED <<ctl, cfg, vis, actsAfterStop, pc, midx, item, rotv, loopv, gguard, gcyc,
                   rcAborted, ran, stopPhase>>

\* _guard: while self.pause_event.is_set():
GuardCheckPause ==
    /\ gpc = "pause"
    /\ IF GuardPauseWaits
       THEN gpc' = "pstop" /\ blocked' = TRUE
       ELSE gpc' = "act" /\ blocked' = blocked
    /\ caught' = "none" /\ logged' = "none"
    /\ UNCHANGED <<ctl, cfg, vis, actsAfterStop, pc, exc, midx, item, rotv, loopv,
                   callStop, stopInWait, pausedSince, sleepsAfterClear, gcyc,
                   rcAborted, ran, stopPhase>>

\* _guard, in the loop: if stop is set: raise RuntimeError("Bot stopped during pause")
GuardPauseStop ==
    /\ gpc = "pstop"
    /\ IF GuardPauseStopRaises
       THEN gpc' = "raised" /\ exc' = "RuntimeError"
       ELSE gpc' = "sleep" /\ exc' = exc
    /\ caught' = "none" /\ logged' = "none"
    /\ UNCHANGED <<ctl, cfg, vis, actsAfterStop, pc, midx, item, rotv, loopv, gguard, gcyc,
                   rcAborted, ran, stopPhase>>

\* a wait that gives up after one poll sleep and lets the call proceed
AfterPauseSleepProceeds == "act"

\* _guard: after time.sleep(0.05) the while condition is tested again
AfterPauseSleep == "pause"

\* _guard, in the loop: time.sleep(0.05)
GuardSleep ==
    /\ gpc = "sleep"
    /\ gpc' = AfterPauseSleep
    /\ elapsed' = IF pc \in RotSites
                  THEN Min(elapsed + PauseSleep, ElapsedCap)
                  ELSE elapsed
    /\ rotBlocked' = (rotBlocked \/ pc \in RotSites)
    /\ sleepsAfterClear' = IF ~pause THEN Min(sleepsAfterClear + 1, 2)
                           ELSE sleepsAfterClear
    /\ caught' = "none" /\ logged' = "none"
    /\ UNCHANGED <<ctl, cfg, vis, actsAfterStop, pc, exc, midx, item, target, timeout, iters, loopv,
                   callStop, blocked, stopInWait, pausedSince, gcyc,
                   rcAborted, ran, stopPhase>>

\* the pyautogui call after _guard: the device action, or an error of the device
DeviceAct ==
    /\ gpc = "act"
    /\ \/ /\ gpc' = "returned" /\ exc' = exc
          /\ elapsed' = IF pc = "rot_drag"
                        THEN Min(elapsed + DragDuration, ElapsedCap)
                        ELSE elapsed
          /\ hfiKeys' = IF pc \in FullInvSites THEN hfiKeys + 1 ELSE hfiKeys
          /\ lastAct' = IF ActionKind(pc) = "other" THEN lastAct ELSE ActionKind(pc)
          /\ trigs' = IF pc \in CraftTriggers THEN Min(trigs + 1, 2)
                      ELSE IF pc = "col_click" /\ slot = 1 THEN 0 ELSE trigs
          /\ trail' = IF pc \in SelectSites \cup CraftSites
                      THEN Append(trail, pc) ELSE trail
       \/ /\ gpc' = "raised" /\ exc' = "Exception"
          /\ elapsed' = elapsed /\ hfiKeys' = hfiKeys /\ lastAct' = lastAct /\ trigs' = trigs /\ trail' = trail
    /\ actsAfterStop' = IF stop THEN Min(actsAfterStop + 1, 2) ELSE actsAfterStop
    /\ caught' = "none" /\ logged' = "none"
    /\ UNCHANGED <<ctl, cfg, vis, pc, midx, item, target, timeout, iters, rotBlocked,
                   loopv, gguard, notFoundCause, dismantledItem, acquired,
                   rcAborted, ran, stopPhase>>

\* --------------------------------------------------------- core.run_bot
\* run_bot up to "if not modules: return"
CollectConfig ==
    /\ pc = "gui"
    /\ IF Len(modules) = 0
       THEN Goto("returned") /\ caught' = "none" /\ logged' = "No crafting modules enabled; exiting."
       ELSE Goto("hotkeys") /\ caught' = "none" /\ logged' = "none"
    /\ UNCHANGED <<ctl, cfg, vis, actsAfterStop, midx, item, rotv, loopv, gcyc, rcAborted, ran, stopPhase>>

\* keyboard.add_hotkey(...), or the warning that stop/pause are disabled
RegisterHotkeys ==
    /\ pc = "hotkeys"
    /\ Goto("while")
    /\ caught' = "none" /\ logged' = IF hotkeysOk THEN "Hotkeys registered" ELSE "Could not register hotkeys"
    /\ UNCHANGED <<ctl, cfg, vis, actsAfterStop, midx, item, rotv, loopv, gcyc, rcAborted, ran, stopPhase>>

\* while not stop_event.is_set():
LoopHead ==
    /\ pc = "while"
    /\ IF ~stop
       THEN Goto("for") /\ midx' = 1 /\ ran' = <<>>
       ELSE Goto("finally") /\ midx' = midx /\ ran' = ran
    /\ caught' = "none" /\ logged' = "none"
    /\ UNCHANGED <<ctl, cfg, vis, actsAfterStop, item, rotv, loopv, gcyc, rcAborted, stopPhase>>

\* for module in modules: if stop_event.is_set(): break; module.run_cycle()
\* (Jeweling.run_cycle and Tailoring.run_cycle only log and return)
ForHead ==
    /\ pc = "for"
    /\ IF midx > Len(modules) \/ stop
       THEN Goto("while") /\ item' = item /\ rcAborted' = rcAborted
            /\ dismantledItem' = dismantledItem /\ caught' = "none" /\ logged' = "none"
            /\ ran' = ran
       ELSE /\ rcAborted' = FALSE /\ dismantledItem' = 0
            /\ ran' = Append(ran, modules[midx])
            /\ caught' = "none" /\ logged' = "Executing module"
            /\ IF modules[midx] = "blacksmithing"
               THEN Goto("rc_for") /\ item' = 1
               ELSE Goto("post") /\ item' = 0
    /\ UNCHANGED <<ctl, cfg, vis, actsAfterStop, midx, rotv, loopv, notFoundCause, acquired, hfiKeys, lastAct, trigs,
                   trail, stopPhase>>

\* a handler that catches only the missing-backend error
OrchCatchesNotImplemented(e) == e = "NotImplementedError"

\* which exceptions "except Exception as module_error" catches
OrchCatches(e) == e \in ExceptionClasses

\* except Exception as module_error: logger.error(...)
OrchExcept ==
    /\ pc = "rc_raised"
    /\ IF OrchCatches(exc)
       THEN Goto("post") /\ caught' = exc /\ logged' = "Error in module" /\ rcAborted' = TRUE
       ELSE /\ pc' = "finally" /\ UNCHANGED <<gpc, exc, gguard>>
            /\ caught' = "none" /\ logged' = "none" /\ rcAborted' = rcAborted
    /\ UNCHANGED <<ctl, cfg, vis, actsAfterStop, midx, item, rotv, loopv, gcyc, ran, stopPhase>>

\* a loop that sleeps the delay whatever stop_event is
PostModuleContinues == FALSE

\* the test after module.run_cycle(): "if stop_event.is_set(): break"
PostModuleBreaks == stop

\* if stop_event.is_set(): break
PostModule ==
    /\ pc = "post"
    /\ IF PostModuleBreaks THEN Goto("while") ELSE Goto("delay")
    /\ caught' = "none" /\ logged' = "none"
    /\ UNCHANGED <<ctl, cfg, vis, actsAfterStop, midx, item, rotv, loopv, gcyc, rcAborted, ran, stopPhase>>

\* time.sleep(config.cycle_delay), then the next module
Delay ==
    /\ pc = "delay"
    /\ Goto("for")
    /\ midx' = midx + 1
    /\ caught' = "none" /\ logged' = "none"
    /\ UNCHANGED <<ctl, cfg, vis, actsAfterStop, item, rotv, loopv, gcyc, rcAborted, ran, stopPhase>>

\* except KeyboardInterrupt: logger.info(...)
KbInterrupt ==
    /\ pc = "kbint"
    /\ Goto("finally")
    /\ caught' = "KeyboardInterrupt"
    /\ logged' = "Bot stopped by user via KeyboardInterrupt."
    /\ UNCHANGED <<ctl, cfg, vis, actsAfterStop, midx, item, rotv, loopv, gcyc, rcAborted, ran, stopPhase>>

\* a finally clause that only logs
FinallyOnlyLogs == FALSE

\* whether the finally clause sets stop_event
FinallySetsStop == TRUE

\* finally: stop_event.set(); an exception nothing caught leaves run_bot
Finally ==
    /\ pc = "finally"
    /\ stop' = (stop \/ FinallySetsStop)
    /\ IF exc = "none"
       THEN Goto("returned")
       ELSE pc' = "crashed" /\ UNCHANGED <<gpc, exc, gguard>>
    /\ caught' = "none" /\ logged' = "Bot exiting."
    /\ UNCHANGED <<pause, cfg, vis, actsAfterStop, midx, item, rotv, loopv, gcyc, rcAborted, ran, stopPhase>>

\* ------------------------------------------------ exception handlers
\* the "except NotImplementedError" clause around every primitive call
LocalCatches(e) == e = "NotImplementedError"

\* "except Exception as e" around both calls of nav.rotate_camera_until
RotateCallerCatches(e) == e \in ExceptionClasses

\* an item loop that wraps each item in "except Exception: continue"
ItemLoopCatchesAll(e) == TRUE

\* run_cycle has no handler around the steps of one item
ItemLoopCatches(e) == FALSE

\* a collect loop without the "break": crafting resumes for the same item
FullInventoryResumes == "resume"

\* what follows handle_full_inventory in run_cycle: "break" leaves the collect
\* loop, so the for loop goes on to the next item
FullInventoryNext == "next_item"

\* the loop variables of the helper methods, outside the helpers
ResetLoop ==
    attempt' = 0 /\ slot' = 0 /\ bagFull' = FALSE /\ grade' = 0 /\ positions' = <<>> /\ clicked' = {}

\* the locals of rotate_camera_until, outside the method
ResetRot ==
    /\ target' = "none" /\ timeout' = 0 /\ elapsed' = 0
    /\ iters' = 0 /\ rotBlocked' = FALSE

\* the for loop of run_cycle takes the next item
NextItem == Goto("rc_for") /\ item' = item + 1 /\ acquired' = FALSE

\* an exception no local handler catches, raised while an item is processed
Abort(e) ==
    /\ IF ItemLoopCatches(e)
       THEN NextItem
       ELSE RaiseOut(e) /\ item' = item /\ acquired' = FALSE
    /\ ResetLoop /\ ResetRot
    /\ caught' = "none" /\ logged' = "none"
    /\ hfiKeys' = 0 /\ lastAct' = "none" /\ trigs' = 0 /\ trail' = <<>>
    /\ UNCHANGED <<notFoundCause, dismantledItem>>

\* handle_full_inventory has returned to run_cycle
AfterFullInventory ==
    /\ dismantledItem' = item
    /\ IF FullInventoryNext = "next_item"
       THEN NextItem
       ELSE Goto("sc_begin") /\ item' = item /\ acquired' = acquired

\* ------------------------------------- Navigation.rotate_camera_until
\* a run_cycle that opens the forge whatever the acquisition returned
ForgeProceedsAlways(found) == TRUE

\* run_cycle: "if not found_forge: ...; continue"
ForgeProceeds(found) == found

\* a dismantle routine that goes on whatever the acquisition returned
CrusherProceedsAlways(found) == TRUE

\* handle_full_inventory: "if not found_crusher: ...; return"
CrusherProceeds(found) == found

\* rotate_camera_until returns found to its caller (run_cycle for the forge,
\* handle_full_inventory for the crusher), or the caller caught its exception e
RotateReturn(found, cause, e) ==
    /\ notFoundCause' = cause
    /\ caught' = e
    /\ ResetRot
    /\ IF target = "forge"
       THEN /\ logged' = IF found THEN "Detected keyword"
                         ELSE "Could not detect forge on screen; skipping"
            /\ IF ForgeProceeds(found)
               THEN /\ Call("open_press") /\ acquired' = found
                    /\ UNCHANGED <<item, dismantledItem, hfiKeys, lastAct, trigs, trail, loopv>>
               ELSE /\ NextItem
                    /\ UNCHANGED <<dismantledItem, hfiKeys, lastAct, trigs, trail, loopv>>
       ELSE /\ logged' = IF found THEN "Detected keyword"
                         ELSE "Could not detect crusher; skipping dismantling routine"
            /\ IF CrusherProceeds(found)
               THEN /\ Call("hfi_e")
                    /\ UNCHANGED <<item, dismantledItem, acquired, hfiKeys, lastAct, trigs, trail, loopv>>
               ELSE /\ AfterFullInventory
                    /\ ResetLoop
                    /\ UNCHANGED <<hfiKeys, lastAct, trigs, trail>>

\* for item_cfg in config.items: ...; nav.move_to_station("forge") moves nothing
RunItem ==
    /\ pc = "rc_for"
    /\ IF item > nItems
       THEN /\ Goto("post")
            /\ UNCHANGED <<rotv, notFoundCause>>
            /\ caught' = "none" /\ logged' = "none"
       ELSE /\ Goto("rot_while")
            /\ target' = "forge" /\ timeout' = RotTimeout /\ elapsed' = 0
            /\ iters' = 0 /\ rotBlocked' = FALSE
            /\ notFoundCause' = "none"
            /\ caught' = "none" /\ logged' = "Starting blacksmithing cycle"
    /\ hfiKeys' = 0 /\ lastAct' = "none" /\ trigs' = 0 /\ trail' = <<>>
    /\ UNCHANGED <<ctl, cfg, vis, actsAfterStop, midx, item, loopv, dismantledItem, acquired,
                   rcAborted, ran, stopPhase>>

\* a loop that runs its body once
RotateContinuesOnce == elapsed = 0

\* while time.time() - start < timeout:
RotateContinues == elapsed < timeout

\* a loop that sleeps 0.05 s instead of 0.5 s at the end of its body
PollSleepShort == PauseSleep

\* time.sleep(0.5) at the end of each iteration
PollSleep == PollInterval

\* the head of the loop of rotate_camera_until
RotateLoop ==
    /\ pc = "rot_while"
    /\ IF RotateContinues
       THEN /\ Call("rot_move")
            /\ iters' = iters + 1
            /\ UNCHANGED <<item, target, timeout, elapsed, rotBlocked, loopv, gcyc>>
            /\ caught' = "none" /\ logged' = "none"
       ELSE RotateReturn(FALSE, "timeout", "none")
    /\ UNCHANGED <<ctl, cfg, vis, actsAfterStop, midx, rcAborted, ran, stopPhase>>

\* the continuation of ui.move_to, ui.drag_rel and ui.screenshot in the loop
RotateResume ==
    /\ pc \in RotSites /\ gpc \in {"returned", "raised"}
    /\ CASE gpc = "returned" /\ pc = "rot_move" ->
              /\ Call("rot_drag")
              /\ UNCHANGED <<item, rotv, loopv, gcyc>>
              /\ caught' = "none" /\ logged' = "none"
         [] gpc = "returned" /\ pc = "rot_drag" ->
              /\ Call("rot_shot")
              /\ UNCHANGED <<item, rotv, loopv, gcyc>>
              /\ caught' = "none" /\ logged' = "none"
         [] gpc = "returned" /\ pc = "rot_shot" ->
              /\ Goto("rot_ocr")
              /\ UNCHANGED <<item, rotv, loopv, gcyc>>
              /\ caught' = "none" /\ logged' = "none"
         [] gpc = "raised" /\ LocalCatches(exc) ->
              RotateReturn(FALSE, "unavailable", exc)
         [] gpc = "raised" /\ ~LocalCatches(exc) /\ RotateCallerCatches(exc) ->
              RotateReturn(FALSE, IF exc = "RuntimeError" THEN "Cancelled" ELSE "error", exc)
         [] OTHER -> Abort(exc)
    /\ UNCHANGED <<ctl, cfg, vis, actsAfterStop, midx, rcAborted, ran, stopPhase>>

\* a text check that runs without the recognition backend
OcrResultsUnguarded == {"hit", "miss", "error"}

\* "if _has_pytesseract:": what the text check of the captured frame can give
OcrResults == IF hasOcr THEN {"hit", "miss", "error"} ELSE {"miss"}

\* pytesseract.image_to_string on the screenshot (the capture and the text
\* check take d ticks), then time.sleep(0.5)
RotateOcr ==
    /\ pc = "rot_ocr"
    /\ \E res \in OcrResults, d \in {0, MaxOcrTime} :
         IF res = "hit"
         THEN RotateReturn(TRUE, "none", "none")
         ELSE /\ Goto("rot_while")
              /\ elapsed' = Min(elapsed + d + PollSleep, ElapsedCap)
              /\ UNCHANGED <<item, target, timeout, iters, rotBlocked, loopv, gcyc>>
              /\ caught' = IF res = "error" THEN "Exception" ELSE "none"
              /\ logged' = IF res = "error" THEN "OCR failed" ELSE "none"
    /\ UNCHANGED <<ctl, cfg, vis, actsAfterStop, midx, rcAborted, ran, stopPhase>>

\* --------------------------------------------- Blacksmithing.run_cycle
\* the template select_recipe uses: img.item_triggers[i]["item"], only when
\* the caller passes item_cfg (run_cycle calls select_recipe(name))
RecipeTemplate(itemCfgPassed, i) == itemCfgPassed /\ HasItemTrigger(i)

\* img.match_template / img.locate_button on a capture: a position, None, or
\* an exception (the callers wrap them in "except Exception")
MatchResults == {"pos", "none", "raise"}

\* img.locate_text on a capture; it raises NotImplementedError without OCR
LocateTextResults == IF hasOcr THEN {"pos", "none", "raise"} ELSE {"raise"}

\* the exception a continuation caught: the one the primitive raised, or the
\* one the perception call on the capture raised
CaughtBy(r) ==
    IF gpc = "raised" THEN exc ELSE IF r = "raise" THEN "Exception" ELSE "none"

\* open_crafting_interface: the continuation of ui.press('e'), then the
\* start of select_recipe
OpenResume ==
    /\ pc = "open_press" /\ gpc \in {"returned", "raised"}
    /\ IF gpc = "returned" \/ LocalCatches(exc)
       THEN /\ IF RecipeTemplate(FALSE, item)
               THEN Call("sr_tshot")
               ELSE Goto("sr_for")
            /\ trail' = <<>>
            /\ UNCHANGED <<item, rotv, loopv, notFoundCause, dismantledItem,
                           acquired, hfiKeys, lastAct, trigs>>
            /\ caught' = CaughtBy("none")
            /\ logged' = IF gpc = "raised" THEN "Cannot send keypress" ELSE "Selecting recipe"
       ELSE Abort(exc)
    /\ UNCHANGED <<ctl, cfg, vis, actsAfterStop, midx, rcAborted, ran, stopPhase>>

\* a loop that runs once more than range(6)
SelectRecipeRetries == attempt <= RecipeScrollAttempts

\* whether "for attempt in range(6)" has another iteration
SelectRecipeContinues == attempt < RecipeScrollAttempts

\* select_recipe: for attempt in range(6):
SelectRecipeLoop ==
    /\ pc = "sr_for"
    /\ IF SelectRecipeContinues
       THEN /\ Call("sr_shot") /\ UNCHANGED loopv /\ logged' = "none"
       ELSE /\ Goto("sc_begin") /\ ResetLoop
            /\ logged' = "Could not locate recipe"
    /\ caught' = "none"
    /\ UNCHANGED <<ctl, cfg, vis, actsAfterStop, midx, item, rotv, gcyc, rcAborted, ran, stopPhase>>

\* select_recipe: the continuation of each of its primitive calls
SelectRecipeResume ==
    /\ pc \in SelectSites /\ gpc \in {"returned", "raised"}
    /\ CASE pc = "sr_tshot" /\ (gpc = "returned" \/ LocalCatches(exc)) ->
              /\ \E r \in (IF gpc = "returned" THEN MatchResults ELSE {"none"}) :
                    /\ IF r = "pos" THEN Call("sr_tclick") ELSE Goto("sr_for")
                    /\ caught' = CaughtBy(r)
              /\ UNCHANGED <<item, rotv, loopv, gcyc>> /\ logged' = "none"
         [] pc = "sr_tclick" /\ gpc = "returned" ->
              /\ Goto("sc_begin") /\ ResetLoop
              /\ UNCHANGED <<item, rotv, gcyc>>
              /\ caught' = "none" /\ logged' = "none"
         [] pc = "sr_tclick" /\ gpc = "raised" /\ LocalCatches(exc) ->
              /\ Goto("sr_for")
              /\ UNCHANGED <<item, rotv, loopv, gcyc>>
              /\ caught' = exc /\ logged' = "cannot click recipe via template"
         [] pc = "sr_shot" /\ (gpc = "returned" \/ LocalCatches(exc)) ->
              /\ \E r \in (IF gpc = "returned" THEN LocateTextResults ELSE {"none"}) :
                    /\ IF r = "pos" THEN Call("sr_click") ELSE Call("sr_scroll")
                    /\ caught' = CaughtBy(r)
              /\ UNCHANGED <<item, rotv, loopv, gcyc>> /\ logged' = "none"
         [] pc = "sr_click" /\ gpc = "returned" ->
              /\ Goto("sc_begin") /\ ResetLoop
              /\ UNCHANGED <<item, rotv, gcyc>>
              /\ caught' = "none" /\ logged' = "none"
         [] pc = "sr_click" /\ gpc = "raised" /\ LocalCatches(exc) ->
              /\ Goto("sc_begin") /\ ResetLoop
              /\ UNCHANGED <<item, rotv, gcyc>>
              /\ caught' = exc /\ logged' = "Could not locate recipe"
         [] pc = "sr_scroll" /\ gpc = "returned" ->
              /\ Goto("sr_for") /\ attempt' = attempt + 1
              /\ UNCHANGED <<item, rotv, slot, bagFull, grade, positions, clicked, gcyc>>
              /\ caught' = "none" /\ logged' = "none"
         [] pc = "sr_scroll" /\ gpc = "raised" /\ LocalCatches(exc) ->
              /\ Goto("sc_begin") /\ ResetLoop
              /\ UNCHANGED <<item, rotv, gcyc>>
              /\ caught' = exc /\ logged' = "Could not locate recipe"
         [] OTHER -> Abort(exc)
    /\ UNCHANGED <<ctl, cfg, vis, actsAfterStop, midx, rcAborted, ran, stopPhase>>

\* a chain that falls through to the key press at once
KeyboardNext(s) == "sc_press"

\* start_craft: the call that opens the strategy tried after the one of call
\* site s has failed: OCR of the label, the fallback icon, the key press
NextStrategy(s) ==
    CASE s \in {"sc_tshot", "sc_tclick"} -> "sc_oshot"
      [] s \in {"sc_oshot", "sc_oclick"} -> "sc_fshot"
      [] OTHER -> "sc_press"

\* start_craft: the create trigger template of the item, if it has one
StartCraftBegin ==
    /\ pc = "sc_begin"
    /\ IF HasCreateTrigger(item) THEN Call("sc_tshot") ELSE Call("sc_oshot")
    /\ caught' = "none" /\ logged' = "Attempting to start crafting"
    /\ trail' = <<>>
    /\ UNCHANGED <<ctl, cfg, vis, actsAfterStop, midx, item, rotv, loopv, notFoundCause,
                   dismantledItem, acquired, hfiKeys, lastAct, trigs, rcAborted, ran, stopPhase>>

\* a start_craft whose return is followed by another start_craft
StartCraftRepeats ==
    /\ Goto("sc_begin")
    /\ slot' = 1 /\ bagFull' = FALSE
    /\ UNCHANGED <<attempt, grade, positions, clicked>>

\* start_craft has returned: run_cycle enters collect_items_from_output
StartCraftReturn ==
    /\ Goto("col_for")
    /\ slot' = 1 /\ bagFull' = FALSE
    /\ UNCHANGED <<attempt, grade, positions, clicked>>

\* start_craft: the continuation of each of its primitive calls
StartCraftResume ==
    /\ pc \in CraftSites /\ gpc \in {"returned", "raised"}
    /\ IF gpc = "raised" /\ ~LocalCatches(exc)
       THEN Abort(exc)
       ELSE /\ CASE pc = "sc_tshot" ->
                    /\ \E r \in (IF gpc = "returned" THEN MatchResults ELSE {"none"}) :
                          /\ IF r = "pos" THEN Call("sc_tclick") ELSE Call(NextStrategy(pc))
                          /\ caught' = CaughtBy(r)
                    /\ UNCHANGED loopv /\ logged' = "none"
               [] pc = "sc_oshot" ->
                    /\ \E r \in (IF gpc = "returned" THEN LocateTextResults ELSE {"none"}) :
                          /\ IF r = "pos" THEN Call("sc_oclick") ELSE Call(NextStrategy(pc))
                          /\ caught' = CaughtBy(r)
                    /\ UNCHANGED loopv /\ logged' = "none"
               [] pc = "sc_fshot" ->
                    /\ \E r \in (IF gpc = "returned" /\ HasCreateIcon(item)
                                 THEN MatchResults ELSE {"none"}) :
                          /\ IF r = "pos" THEN Call("sc_fclick") ELSE Call(NextStrategy(pc))
                          /\ caught' = CaughtBy(r)
                    /\ UNCHANGED loopv /\ logged' = "none"
               [] pc \in CraftTriggers /\ gpc = "returned" ->
                    StartCraftReturn /\ caught' = "none" /\ logged' = "none"
               [] pc = "sc_tclick" /\ gpc = "raised" ->
                    /\ Call(NextStrategy(pc)) /\ UNCHANGED loopv
                    /\ caught' = exc /\ logged' = "cannot click via template"
               [] pc = "sc_oclick" /\ gpc = "raised" ->
                    /\ Call(NextStrategy(pc)) /\ UNCHANGED loopv
                    /\ caught' = exc /\ logged' = "cannot click via OCR"
               [] pc = "sc_fclick" /\ gpc = "raised" ->
                    /\ Call(NextStrategy(pc)) /\ UNCHANGED loopv
                    /\ caught' = exc /\ logged' = "cannot click via fallback"
               [] pc = "sc_press" /\ gpc = "raised" ->
                    /\ StartCraftReturn
                    /\ caught' = exc /\ logged' = "No method available to start crafting"
            /\ trail' = IF pc' = "col_for" THEN <<>> ELSE trail
            /\ UNCHANGED <<item, rotv, notFoundCause, dismantledItem, acquired,
                           hfiKeys, lastAct, trigs>>
    /\ UNCHANGED <<ctl, cfg, vis, actsAfterStop, midx, rcAborted, ran, stopPhase>>
\* a check that takes a raising match for an empty slot and 80 for dark
SlotUnmatched(hasTemplate, m, ok, lum) ==
    IF hasTemplate THEN m = "none" ELSE ok /\ lum <= BrightnessThreshold

\* collect_items_from_output: whether the slot is judged still occupied, from
\* the result of match_template against the empty-slot template or, without a
\* template, the mean luminance of the capture (ok: it could be computed)
SlotOccupied(hasTemplate, m, ok, lum) ==
    IF hasTemplate THEN m # "pos" ELSE ok /\ lum < BrightnessThreshold

\* a round that goes on to the next slot after an occupied one
OccupiedContinues == FALSE

\* collect_items_from_output: "bag_full = True; ...; break"
OccupiedEndsRound == TRUE

\* a method that reports the output cleared whatever it found
CollectResultAlwaysTrue(full) == TRUE

\* collect_items_from_output: return not bag_full
CollectResult(full) == ~full

\* the test with its sense inverted
InventoryFullBranchInverted(cleared) == cleared

\* run_cycle: if not self.collect_items_from_output(item_cfg):
InventoryFullBranch(cleared) == ~cleared

\* collect_items_from_output returns, with bag_full = full, to the loop of
\* run_cycle: handle_full_inventory, or time.sleep(0.5) and start_craft
CollectReturn(full) ==
    /\ attempt' = 0 /\ slot' = slot /\ bagFull' = full /\ grade' = 0 /\ positions' = <<>> /\ clicked' = {}
    /\ IF InventoryFullBranch(CollectResult(full))
       THEN /\ Call("hfi_esc")
            /\ logged' = "Inventory appears full; initiating dismantling routine"
       ELSE /\ Goto("sc_begin")
            /\ logged' = "none"

\* collect_items_from_output: for (x, y) in output_slots:
CollectLoop ==
    /\ pc = "col_for"
    /\ IF slot <= OutputSlots
       THEN Call("col_click") /\ UNCHANGED loopv /\ logged' = "none"
       ELSE CollectReturn(bagFull)
    /\ caught' = "none"
    /\ UNCHANGED <<ctl, cfg, vis, actsAfterStop, midx, item, rotv, gcyc, rcAborted, ran, stopPhase>>

\* collect_items_from_output: the continuation of the right-click and of the
\* capture around the slot
CollectResume ==
    /\ pc \in CollectSites /\ gpc \in {"returned", "raised"}
    /\ IF gpc = "raised" /\ ~LocalCatches(exc)
       THEN Abort(exc)
       ELSE /\ CASE pc = "col_click" /\ gpc = "returned" ->
                    /\ Call("col_shot") /\ UNCHANGED loopv
                    /\ caught' = "none" /\ logged' = "none"
               [] pc = "col_click" /\ gpc = "raised" ->
                    /\ Goto("sc_begin") /\ ResetLoop
                    /\ caught' = exc /\ logged' = "cannot collect items"
               [] pc = "col_shot" /\ gpc = "returned" ->
                    \E m \in MatchResults, ok \in BOOLEAN,
                       lum \in {BrightnessThreshold - 1, BrightnessThreshold} :
                       /\ caught' = IF HasEmptySlotTrigger(item)
                                    THEN CaughtBy(m)
                                    ELSE IF ok THEN "none" ELSE "Exception"
                       /\ IF SlotOccupied(HasEmptySlotTrigger(item), m, ok, lum)
                          THEN IF OccupiedEndsRound
                               THEN CollectReturn(TRUE)
                               ELSE /\ Goto("col_for")
                                    /\ slot' = slot + 1 /\ bagFull' = TRUE
                                    /\ UNCHANGED <<attempt, grade, positions, clicked>>
                                    /\ logged' = "Slot appears occupied"
                          ELSE /\ Goto("col_for") /\ slot' = slot + 1
                               /\ UNCHANGED <<attempt, bagFull, grade, positions, clicked>>
                               /\ logged' = "none"
               [] pc = "col_shot" /\ gpc = "raised" ->
                    /\ Goto("col_for") /\ slot' = slot + 1
                    /\ UNCHANGED <<attempt, bagFull, grade, positions, clicked>>
                    /\ caught' = exc /\ logged' = "none"
            /\ UNCHANGED <<item, rotv, gcyc>>
    /\ UNCHANGED <<ctl, cfg, vis, actsAfterStop, midx, rcAborted, ran, stopPhase>>

\* handle_full_inventory: the continuation of each of its key presses
FullInventoryResume ==
    /\ pc \in FullInvSites /\ gpc \in {"returned", "raised"}
    /\ IF gpc = "raised" /\ ~LocalCatches(exc)
       THEN Abort(exc)
       ELSE /\ caught' = CaughtBy("none")
            /\ CASE pc = "hfi_esc" ->
                   /\ Goto("rot_while")
                   /\ target' = "crusher" /\ timeout' = RotTimeout /\ elapsed' = 0
                   /\ iters' = 0 /\ rotBlocked' = FALSE
                   /\ notFoundCause' = "none"
                   /\ slot' = 0
                   /\ UNCHANGED <<item, attempt, bagFull, grade, positions, clicked,
                                  dismantledItem, acquired, hfiKeys, lastAct, trigs, trail>>
                   /\ logged' = "Rotating camera"
              [] pc = "hfi_e" ->
                   /\ Call("hfi_i")
                   /\ UNCHANGED <<item, rotv, loopv, gcyc>> /\ logged' = "none"
              [] pc = "hfi_i" ->
                   /\ Goto("dm_grade") /\ grade' = 1
                   /\ UNCHANGED <<item, rotv, attempt, slot, bagFull, positions, clicked, gcyc>>
                   /\ logged' = "Dismantling items of selected grades in inventory"
              [] pc = "hfi_esc2" ->
                   /\ AfterFullInventory /\ ResetLoop
                   /\ UNCHANGED <<rotv, notFoundCause, hfiKeys, lastAct, trigs, trail>> /\ logged' = "none"
    /\ UNCHANGED <<ctl, cfg, vis, actsAfterStop, midx, rcAborted, ran, stopPhase>>

\* dismantle_items: the template of a grade: the item's own
\* (img.item_templates[i]) or else img._grade_templates, the first item's
GradeTemplate(i, g) == ItemTemplates(i)[g] \/ ItemTemplates(1)[g]

\* a loop that scans every grade of the mapping
SendToCrusherAll(i, g) == TRUE

\* dismantle_items: "if not send_to_crusher: continue"
SendToCrusher(i, g) == GradePrefs(i)[g]

\* dismantle_items: for grade, send_to_crusher in grade_prefs.items():
DismantleGrade ==
    /\ pc = "dm_grade"
    /\ IF grade > Len(GradeOrder)
       THEN /\ Call("hfi_esc2") /\ grade' = 0 /\ attempt' = 0
            /\ logged' = "Finished dismantling routine"
       ELSE IF ~SendToCrusher(item, GradeOrder[grade])
            THEN /\ Goto("dm_grade") /\ grade' = grade + 1 /\ attempt' = 0
                 /\ logged' = "none"
            ELSE IF ~GradeTemplate(item, GradeOrder[grade])
                 THEN /\ Goto("dm_grade") /\ grade' = grade + 1 /\ attempt' = 0
                      /\ logged' = "No template loaded for grade; skipping"
                 ELSE /\ Goto("dm_for") /\ grade' = grade /\ attempt' = 0
                      /\ logged' = "none"
    /\ caught' = "none" /\ clicked' = {}
    /\ UNCHANGED <<ctl, cfg, vis, actsAfterStop, midx, item, rotv, slot, bagFull, positions, gcyc,
                   rcAborted, ran, stopPhase>>

\* a loop that runs once more than range(3)
DismantleRetries == attempt <= DismantleAttempts

\* whether "for _ in range(3)" has another iteration
DismantleContinues == attempt < DismantleAttempts

\* dismantle_items: for _ in range(3):
DismantleLoop ==
    /\ pc = "dm_for"
    /\ IF DismantleContinues
       THEN Call("dm_shot") /\ UNCHANGED <<attempt, grade, clicked>>
       ELSE Goto("dm_grade") /\ grade' = grade + 1 /\ attempt' = 0 /\ clicked' = {}
    /\ caught' = "none" /\ logged' = "none"
    /\ UNCHANGED <<ctl, cfg, vis, actsAfterStop, midx, item, rotv, slot, bagFull, positions, gcyc,
                   rcAborted, ran, stopPhase>>

\* dismantle_items: the continuation of the capture (find_items_by_template
\* returns n positions, or raises), of the scroll and of the right-click on
\* each position
DismantleResume ==
    /\ pc \in DismantleSites /\ gpc \in {"returned", "raised"}
    /\ \/ /\ IF gpc = "raised" /\ ~LocalCatches(exc)
             THEN Abort(exc)
             ELSE /\ caught' = CaughtBy("none")
                  /\ CASE pc = "dm_shot" /\ gpc = "returned" ->
                          \E n \in 0..MaxMatches :
                             /\ IF n = 0 THEN Call("dm_scroll") ELSE Call("dm_click")
                             /\ positions' = [i \in 1..n |-> i] /\ clicked' = clicked
                             /\ UNCHANGED <<attempt, grade>> /\ logged' = "none"
                     [] pc = "dm_shot" /\ gpc = "raised" ->
                          /\ Call("hfi_esc2") /\ grade' = 0 /\ attempt' = 0 /\ positions' = <<>> /\ clicked' = {}
                          /\ logged' = "Cannot take screenshot; aborting dismantle"
                     [] pc = "dm_scroll" /\ gpc = "returned" ->
                          /\ Goto("dm_for") /\ attempt' = attempt + 1
                          /\ UNCHANGED <<grade, positions, clicked>> /\ logged' = "none"
                     [] pc = "dm_scroll" /\ gpc = "raised" ->
                          /\ Goto("dm_grade") /\ grade' = grade + 1 /\ attempt' = 0
                          /\ positions' = <<>> /\ clicked' = {} /\ logged' = "Cannot scroll"
                     [] pc = "dm_click" ->
                          /\ IF Len(positions) > 1
                             THEN Call("dm_click") /\ attempt' = attempt
                             ELSE Goto("dm_for") /\ attempt' = attempt + 1
                          /\ positions' = Tail(positions) /\ grade' = grade
                          /\ clicked' = IF gpc = "returned"
                                        THEN clicked \cup {Head(positions)}
                                        ELSE clicked
                          /\ logged' = IF gpc = "raised"
                                       THEN "Cannot click to dismantle item"
                                       ELSE "none"
                  /\ UNCHANGED <<item, rotv, slot, bagFull, gcyc>>
       \/ /\ pc = "dm_shot" /\ gpc = "returned"
          /\ Abort("Exception")
    /\ UNCHANGED <<ctl, cfg, vis, actsAfterStop, midx, rcAborted, ran, stopPhase>>

\* ---------------------------------------------------- ImageRecognition
\* the correlation map res of cv2.matchTemplate(img_gray, template,
\* cv2.TM_CCOEFF_NORMED): one score per position <<x, y>> of the template's
\* top-left corner; scores are counted in three levels, the highest being the
\* score of an exact copy of the template
Positions == (0..(GridW - 1)) \X (0..1)
Scores == 0..2
ExactScore == CHOOSE s \in Scores : \A t \in Scores : t <= s
Thresholds == 1..3
ScoreMaps == [Positions -> Scores]

\* the positions of res in the order numpy and OpenCV scan them: row by row
Scan == [i \in 1..(2 * GridW) |-> <<(i - 1) % GridW, (i - 1) \div GridW>>]

\* a test that asks for a score above the threshold
ExceedsThreshold(v, t) == v > t

\* "max_val >= threshold", "res >= threshold"
MeetsThreshold(v, t) == v >= t

\* cv2.minMaxLoc(res): the maximum and the first position that attains it
MaxVal(res) ==
    CHOOSE v \in Scores : (\E p \in Positions : res[p] = v)
                          /\ \A p \in Positions : res[p] <= v
MaxLoc(res) ==
    Scan[CHOOSE i \in 1..Len(Scan) :
            /\ res[Scan[i]] = MaxVal(res)
            /\ \A j \in 1..(i - 1) : res[Scan[j]] # MaxVal(res)]

\* match_template(screenshot, template, threshold): the value returned
\* (<<>> for None, <<max_loc>> for a location) and the exception raised
MatchTemplate(hasCv2, res, threshold) ==
    IF ~hasCv2
    THEN [ret |-> <<>>, exc |-> "NotImplementedError"]
    ELSE IF MeetsThreshold(MaxVal(res), threshold)
         THEN [ret |-> <<MaxLoc(res)>>, exc |-> "none"]
         ELSE [ret |-> <<>>, exc |-> "none"]

\* np.where(res >= threshold): the positions in scan order
Where(res, threshold) ==
    SelectSeq(Scan, LAMBDA p : MeetsThreshold(res[p], threshold))

\* the regions (left, top) find_items_by_template is called with
Regions == {<<0, 0>>, <<5, 7>>}

\* find_items_by_template(screenshot, template, region, threshold)
FindItemsByTemplate(hasCv2, res, region, threshold) ==
    IF ~hasCv2
    THEN [ret |-> <<>>, exc |-> "NotImplementedError"]
    ELSE [ret |-> [i \in 1..Len(Where(res, threshold)) |->
                     <<region[1] + Where(res, threshold)[i][1],
                       region[2] + Where(res, threshold)[i][2]>>],
          exc |-> "none"]

\* strings are sequences of characters; str.lower() on the characters used
Chars == {"A", "B", "a", "b", " "}
LowerChar(c) == CASE c = "A" -> "a" [] c = "B" -> "b" [] OTHER -> c
Lower(s) == [i \in 1..Len(s) |-> LowerChar(s[i])]

\* str.strip(): leading and trailing blanks removed
RECURSIVE Strip(_)
Strip(s) ==
    IF s = <<>> THEN s
    ELSE IF s[1] = " " THEN Strip(Tail(s))
    ELSE IF s[Len(s)] = " " THEN Strip(SubSeq(s, 1, Len(s) - 1))
    ELSE s

\* Python's "sub in s"
Contains(sub, s) ==
    \E i \in 0..(Len(s) - Len(sub)) : SubSeq(s, i + 1, i + Len(sub)) = sub

\* the texts of the boxes of ocr_data (tesseract reports one box per word, and
\* boxes with empty text), and the targets locate_text is called with
WordTexts == {<<>>, <<"A", "b">>, <<"b", "a">>}
Targets == {<<"a", "b">>, <<"B">>, <<"a", "b", " ", "b", "a">>, <<" ", "b", "a">>}
OcrBoxes == UNION {[1..n -> WordTexts] : n \in 0..MaxWords}

\* (left, top, width, height) of box i of ocr_data
Box(i) == <<10 * i, 0, 8, 8>>

\* the text "target_lower in text.lower()" is tested against: that of box i
TextOfBox(words, i) == Lower(words[i])

\* locate_text(screenshot, target_text): the box of the first non-empty word
\* that contains the target, None when there is none or when image_to_data
\* raises, NotImplementedError without pytesseract
LocateText(ocrOk, fails, words, targetText) ==
    IF ~ocrOk
    THEN [ret |-> <<>>, exc |-> "NotImplementedError"]
    ELSE IF fails
    THEN [ret |-> <<>>, exc |-> "none"]
    ELSE LET hits == {i \in 1..Len(words) :
                         /\ words[i] # <<>>
                         /\ Contains(Strip(Lower(targetText)), TextOfBox(words, i))}
         IN IF hits = {}
            THEN [ret |-> <<>>, exc |-> "none"]
            ELSE [ret |-> <<Box(CHOOSE i \in hits : \A j \in hits : i <= j)>>,
                  exc |-> "none"]

\* GRADE_COLOURS, in dict order
GradeColours ==
    << <<"seryj", <<128, 128, 128>> >>,
       <<"zelenyj", <<0, 255, 0>> >>,
       <<"sinij", <<0, 128, 255>> >>,
       <<"fioletovyj", <<128, 0, 128>> >>,
       <<"zheltyj", <<255, 255, 0>> >> >>

\* the colours of the pixels of the icons, and the icons: two rows of ImgW
\* RGB pixels
Palette == {<<0, 255, 0>>, <<120, 120, 120>>, <<255, 255, 255>>, <<64, 64, 191>>}
Icons == [(1..2) \X (1..ImgW) -> Palette]

\* border_pixels: img_np[0, :, :], img_np[-1, :, :], img_np[:, 0, :],
\* img_np[:, -1, :] concatenated
BorderPixels(img) ==
    [i \in 1..ImgW |-> img[<<1, i>>]] \o [i \in 1..ImgW |-> img[<<2, i>>]]
    \o [i \in 1..2 |-> img[<<i, 1>>]] \o [i \in 1..2 |-> img[<<i, ImgW>>]]

RECURSIVE SumChannel(_, _, _)
SumChannel(px, c, i) ==
    IF i > Len(px) THEN 0 ELSE px[i][c] + SumChannel(px, c, i + 1)

\* np.linalg.norm(avg_color - colour), as the square of the distance times
\* the square of the number n of border pixels, which orders grades the same
\* way: avg_color is the channel sums divided by n
Dist(px, colour) ==
    LET d(c) == SumChannel(px, c, 1) - Len(px) * colour[c]
    IN d(1) * d(1) + d(2) * d(2) + d(3) * d(3)

\* a comparison with its sense inverted
Farther(d, best) == best = <<>> \/ d > best[2]

\* "if dist < best_dist", best_dist being infinite before the first grade
Closer(d, best) == best = <<>> \/ d < best[2]

\* the loop over GRADE_COLOURS from entry i on, best being <<best_grade,
\* best_dist>> or <<>> before the first grade
RECURSIVE BestGrade(_, _, _)
BestGrade(px, i, best) ==
    IF i > Len(GradeColours) THEN best
    ELSE BestGrade(px, i + 1,
                   IF Closer(Dist(px, GradeColours[i][2]), best)
                   THEN <<GradeColours[i][1], Dist(px, GradeColours[i][2])>>
                   ELSE best)

\* detect_item_grade(item_image): best_grade (<<>> for None)
DetectItemGrade(img) ==
    LET best == BestGrade(BorderPixels(img), 1, <<>>)
    IN [ret |-> IF best = <<>> THEN <<>> ELSE <<best[1]>>, exc |-> "none"]

\* mean luminances the brightness heuristic is examined on
Luminances == {0, BrightnessThreshold - 1, BrightnessThreshold, 255}

\* collect_items_from_output, the check of one slot after its right-click:
\* the value bag_full takes (TRUE ends the round with InventoryFull)
CheckSlot(hasTemplate, m, ok, lum) ==
    [ret |-> <<SlotOccupied(hasTemplate, m, ok, lum)>>, exc |-> "none"]

\* the calls examined: the method and its arguments
VisionCalls ==
    [fn : {"match_template"}, hasCv2 : BOOLEAN, res : ScoreMaps,
     threshold : Thresholds]
    \cup [fn : {"find_items_by_template"}, hasCv2 : BOOLEAN, res : ScoreMaps,
          region : Regions, threshold : Thresholds]
    \cup [fn : {"locate_text"}, fails : BOOLEAN, words : OcrBoxes,
          target : Targets]
    \cup [fn : {"detect_item_grade"}, img : Icons]
    \cup [fn : {"check_slot"}, hasTemplate : BOOLEAN, m : MatchResults,
          ok : BOOLEAN, lum : Luminances]

\* an ImageRecognition object and one call of one of its methods, or one slot
\* check of collect_items_from_output, about to run
VisionInit ==
    /\ ProgInit
    /\ hasPyautogui /\ hotkeysOk /\ nItems = 1 /\ Len(order) = 2
    /\ \E c \in VisionCalls : vfn = c.fn /\ vin = c
    /\ vret = <<>> /\ vexc = "pending"

\* the call returns r.ret or raises r.exc
Return(r) ==
    /\ vret' = r.ret /\ vexc' = r.exc
    /\ UNCHANGED <<vfn, vin>>
    /\ UNCHANGED <<ctl, cfg, actsAfterStop, pc, gpc, exc, midx, item, rotv, loopv, logged, caught,
                   gguard, gcyc, rcAborted, ran, stopPhase>>

ApplyMatchTemplate ==
    /\ vfn = "match_template" /\ vexc = "pending"
    /\ Return(MatchTemplate(vin.hasCv2, vin.res, vin.threshold))

ApplyFindItems ==
    /\ vfn = "find_items_by_template" /\ vexc = "pending"
    /\ Return(FindItemsByTemplate(vin.hasCv2, vin.res, vin.region, vin.threshold))

ApplyLocateText ==
    /\ vfn = "locate_text" /\ vexc = "pending"
    /\ Return(LocateText(hasOcr, vin.fails, vin.words, vin.target))

ApplyDetectGrade ==
    /\ vfn = "detect_item_grade" /\ vexc = "pending"
    /\ Return(DetectItemGrade(vin.img))

\* ------------------------------------------------------ specification
HotkeyNext == SetStop \/ TogglePause \/ CtrlC

GuardNext ==
    \/ PrimEnter \/ GuardCheckStop \/ GuardCheckPause
    \/ GuardPauseStop \/ GuardSleep \/ DeviceAct

OrchNext ==
    \/ CollectConfig \/ RegisterHotkeys \/ LoopHead \/ ForHead \/ OrchExcept
    \/ PostModule \/ Delay \/ KbInterrupt \/ Finally

CycleNext ==
    \/ RunItem \/ RotateLoop \/ RotateResume \/ RotateOcr \/ OpenResume
    \/ SelectRecipeLoop \/ SelectRecipeResume \/ StartCraftBegin
    \/ StartCraftResume \/ CollectLoop \/ CollectResume
    \/ FullInventoryResume \/ DismantleGrade \/ DismantleLoop
    \/ DismantleResume

\* every step of the worker thread
WorkerNext == GuardNext \/ OrchNext \/ CycleNext

Next == HotkeyNext \/ WorkerNext

Spec == Init /\ [][Next]_vars

\* the worker thread keeps being scheduled
FairSpec == Spec /\ WF_vars(WorkerNext)

\* one call of one method of ImageRecognition
ApplyCheckSlot ==
    /\ vfn = "check_slot" /\ vexc = "pending"
    /\ Return(CheckSlot(vin.hasTemplate, vin.m, vin.ok, vin.lum))

VisionNext ==
    \/ ApplyMatchTemplate \/ ApplyFindItems \/ ApplyLocateText
    \/ ApplyDetectGrade \/ ApplyCheckSlot

VisionSpec == VisionInit /\ [][VisionNext]_vars

\* -------------------------------------------------------------- claims
\* the worker resumes after a primitive call (and is not interrupted by Ctrl+C)
Resumes == gpc \in {"returned", "raised"} /\ gpc' # gpc /\ pc' # "kbint"

\* the worker takes a step from label l (and is not interrupted by Ctrl+C)
StepsFrom(l) == pc = l /\ pc' # pc /\ pc' # "kbint"

\* C1: a Stop the guard observes inside rotate_camera_until (RuntimeError) is
\* never turned into a "station not found" result of the acquisition
C1_CancelledPropagates == notFoundCause # "Cancelled"

\* C2: a primitive invoked while Stop is set performs no device action and
\* fails with Cancelled (RuntimeError), whatever Pause and the backend are
C2_StopFailsCancelled ==
    callStop => /\ gpc \notin {"act", "returned"}
                /\ (gpc = "raised" => exc = "RuntimeError")

\* C3: a primitive that was blocked in the Pause wait when Stop was set
\* performs no device action and fails with Cancelled
C3_StopWhilePausedCancels ==
    stopInWait => /\ gpc \notin {"act", "returned"}
                  /\ (gpc = "raised" => exc = "RuntimeError")

\* C4: a primitive invoked while Pause is set and Stop is clear performs no
\* device action while Pause stays set, and once Pause is cleared the blocked
\* call sleeps at most one more poll interval before it leaves the wait
C4_PauseBlocksUntilCleared ==
    /\ pausedSince => /\ gpc \notin {"act", "returned"}
                      /\ ~(gpc = "raised" /\ exc = "Exception")
    /\ ~pause => sleepsAfterClear <= 1
    /\ (~pause /\ sleepsAfterClear = 1) => gpc \in {"pause", "act", "returned", "raised"}

\* C4 witness: a call that was blocked is at its device action, Pause having
\* been cleared one poll sleep ago and Stop clear
C4_Witness ==
    blocked /\ ~pause /\ ~stop /\ gpc = "act" /\ sleepsAfterClear = 1

\* C5: once Stop is set, run_bot eventually returns (the worker being scheduled)
C5_StopLeadsToReturn == stop ~> (pc = "returned")

\* C5 witness: run_bot has returned after Stop was set during dismantling,
\* Pause being set
C5_Witness == pc = "returned" /\ stopPhase = "dismantling" /\ pause

\* C6 as stated: whenever run_bot has returned, Stop is set
C6_ReturnsOnlyWhenStop == pc = "returned" => stop

\* C6 amended: run_bot returns with Stop set exactly when at least one module
\* was instantiated; with none it returns at once with Stop clear
C6_ReturnsWithStopAfterLoop == pc = "returned" => (stop <=> Len(modules) > 0)

\* C6 witness: run_bot has returned from its loop without the hotkey having
\* set Stop (Ctrl+C), and the finally clause has set it
C6_Witness == pc = "returned" /\ Len(modules) > 0 /\ stopPhase = "none"

\* C7: an exception that leaves run_cycle is caught and logged by run_bot, and
\* while Stop is clear run_bot goes on: the delay, the next module of the
\* pass, and after the last module a further pass
C7_ErrorsCaughtAtBoundary ==
    [][ /\ StepsFrom("rc_raised") => (pc' = "post" /\ logged' = "Error in module")
        /\ (StepsFrom("post") /\ rcAborted /\ ~stop) => pc' = "delay"
        /\ (StepsFrom("delay") /\ rcAborted) => (pc' = "for" /\ midx' = midx + 1)
        /\ (StepsFrom("for") /\ rcAborted /\ ~stop) =>
              IF midx <= Len(modules) THEN pc' \in {"rc_for", "post"} /\ ~rcAborted'
              ELSE pc' = "while"
        /\ (StepsFrom("while") /\ rcAborted /\ ~stop) => (pc' = "for" /\ midx' = 1)
      ]_vars

\* C7 witness: an exception was caught with Stop clear and run_bot sleeps the
\* delay before a further module of the pass
C7_Witness == pc = "delay" /\ rcAborted /\ ~stop /\ midx < Len(modules)

\* C8 as stated: after an unexpected exception in one item's processing the
\* next item of the profession is started
C8_NextItemAfterError ==
    [][ (Resumes /\ gpc = "raised" /\ exc = "Exception" /\ item < nItems)
           => (pc' = "rc_for" /\ item' = item + 1) ]_vars

\* C8 amended: an unexpected exception raised outside station acquisition
\* leaves run_cycle (no later item is processed until a module is invoked
\* again); one raised inside rotate_camera_until counts as "not found"
C8_ErrorEndsModulePass ==
    /\ [][ /\ (Resumes /\ gpc = "raised" /\ exc = "Exception" /\ pc \notin RotSites)
                => (pc' = "rc_raised" /\ item' = item)
           /\ (Resumes /\ gpc = "raised" /\ exc = "Exception" /\ pc \in RotSites)
                => (pc' = "rc_for" /\ item' = item + 1 /\ notFoundCause' = "error")
         ]_vars
    /\ [](rcAborted => ~InRunCycle)

\* C8 witness: run_cycle was left by an exception at an item that is not the
\* last one, Stop being clear
C8_Witness == pc = "post" /\ rcAborted /\ ~stop /\ item >= 1 /\ item < nItems

\* C9 as stated: the craft trigger that follows the return of
\* handle_full_inventory belongs to the item that was dismantled
C9_ResumesSameItem ==
    (dismantledItem # 0 /\ pc \in CraftTriggers /\ gpc = "returned")
        => item = dismantledItem

\* C9 amended: once handle_full_inventory has returned for an item, run_cycle
\* only processes later items in that call
C9_NextItemAfterDismantle ==
    (dismantledItem # 0 /\ InRunCycle) => item > dismantledItem

\* C9 witness: a craft trigger of item 2 was issued after the dismantle
\* routine of item 1 returned
C9_Witness ==
    dismantledItem = 1 /\ item = 2 /\ pc \in CraftTriggers /\ gpc = "returned"

\* C10 as stated: after the forge was acquired, run_cycle moves on to the next
\* item only if Stop is set
C10_EndsOnlyOnStop == [][ (acquired /\ item' = item + 1) => stop ]_vars

\* C10 amended: after the forge was acquired, the item's cycle ends only by an
\* exception leaving run_cycle or, a collect round having reported the bag
\* full, by the return of handle_full_inventory
C10_EndsOnExceptionOrFull ==
    [][ (acquired /\ ~acquired') =>
           \/ pc' = "rc_raised"
           \/ (bagFull /\ Phase = "dismantling" /\ dismantledItem' = item
                 /\ pc' = "rc_for" /\ item' = item + 1) ]_vars

\* C10 witness: the cycle of an item has ended after its dismantle routine,
\* Stop being clear
C10_Witness == pc = "rc_for" /\ dismantledItem >= 1 /\ item = dismantledItem + 1 /\ ~stop

\* C11: an item whose forge acquisition did not succeed gets no open, recipe,
\* craft, collect or dismantle step: the failed acquisition is followed by the
\* next item of the loop, which starts its own acquisition from zero
C11_SkipsItemWithoutForge ==
    /\ [](Phase \in {"opening", "selecting", "crafting", "collecting", "dismantling"}
             => acquired)
    /\ [][ (Phase = "rotating" /\ Phase' # "rotating" /\ pc' # "kbint" /\ ~acquired')
              => (pc' = "rc_for" /\ item' = item + 1) ]_vars
    /\ [][ (StepsFrom("rc_for") /\ item <= nItems)
              => (pc' = "rot_while" /\ target' = "forge" /\ elapsed' = 0 /\ iters' = 0)
         ]_vars

\* C11 witness: the rotation for the forge of item 2 is under way after the
\* acquisition for item 1 failed (item 1 was left without a dismantle routine)
C11_Witness ==
    /\ pc = "rot_move" /\ gpc = "returned" /\ target = "forge"
    /\ item = 2 /\ dismantledItem = 0 /\ ~rcAborted /\ ~stop

\* the right-clicks a collect round has issued when it ends at slot index slot
RoundClicks == Min(slot, OutputSlots)

\* C12 as stated: a collect round that transitions to the dismantle routine
\* has right-clicked all 6 output slots
C12_AllSlotsClicked ==
    (pc = "hfi_esc" /\ gpc = "enter") => RoundClicks = OutputSlots

\* C12 amended: a collect round stops at the first slot judged occupied: no
\* right-click or capture follows in that round, the dismantle routine is
\* entered straight from that slot's check, once, and the slots after it were
\* not attempted
C12_StopsAtOccupiedSlot ==
    /\ [](pc \in CollectSites \cup {"col_for"} => ~bagFull)
    /\ [](pc = "hfi_esc" => (bagFull /\ slot \in 1..OutputSlots))
    /\ [][ (pc' = "hfi_esc" /\ pc # "hfi_esc")
              => (pc = "col_shot" /\ gpc = "returned" /\ slot' = slot) ]_vars

\* C12 witness: the dismantle routine starts after slot 4 failed the
\* emptiness check (slots 5 and 6 were not clicked)
C12_Witness == pc = "hfi_esc" /\ gpc = "enter" /\ bagFull /\ slot = 4

\* C13: a collect round that found every slot cleared is followed by another
\* start_craft and no dismantle routine; one that found a slot occupied is
\* followed by the dismantle routine, once, and by no craft trigger before it
C13_RoundDecidesNextStep ==
    /\ [][ (Phase = "collecting" /\ Phase' # "collecting"
              /\ pc' \notin {"kbint", "rc_raised"})
              => IF bagFull' THEN pc' = "hfi_esc" ELSE pc' = "sc_begin" ]_vars
    /\ [](Phase = "crafting" => ~bagFull)
    /\ [](Phase = "dismantling" => bagFull)
    /\ [][ (pc' = "hfi_esc" /\ pc # "hfi_esc") => Phase = "collecting" ]_vars

\* C13 witness: a craft trigger was issued after a round that cleared all 6
\* output slots
C13_Witness ==
    pc \in CraftTriggers /\ gpc = "returned" /\ slot = OutputSlots + 1 /\ ~bagFull

\* C14: dismantle_items captures, scans, scrolls and right-clicks only for a
\* grade whose "send to crusher" preference is true
C14_OnlyPreferredGrades ==
    pc \in DismantleSites \cup {"dm_for"}
        => (grade \in 1..Len(GradeOrder) /\ GradePrefs(item)[GradeOrder[grade]])

\* C14 witness: an item of a preferred grade was right-clicked after a grade
\* with a loaded template and a false preference was passed over
C14_Witness ==
    /\ pc = "dm_click" /\ gpc = "returned" /\ grade = 2
    /\ ~GradePrefs(item)[GradeOrder[1]] /\ GradeTemplate(item, GradeOrder[1])

\* the dismantle routine has just returned because the crusher was not found
CrusherNotFound == logged = "Could not detect crusher; skipping dismantling routine"

\* C15 as stated: a dismantle routine whose crusher acquisition failed has
\* issued no key press
C15_NoSideEffects == CrusherNotFound => hfiKeys = 0

\* C15 amended: a dismantle routine whose crusher acquisition failed has issued
\* only the Esc press that precedes the acquisition and returns at once to
\* run_cycle; the presses of E and I, the scans, scrolls and right-clicks
\* happen only after an acquisition that succeeded
C15_OnlyEscBeforeCrusher ==
    /\ CrusherNotFound
          => (hfiKeys <= 1 /\ pc = "rc_for" /\ dismantledItem = item - 1
                /\ notFoundCause # "none")
    /\ pc \in {"hfi_e", "hfi_i", "hfi_esc2", "dm_grade", "dm_for"} \cup DismantleSites
          => (notFoundCause = "none" /\ hfiKeys >= 1)

\* C15 witness: the crusher was not found within the timeout; Esc is the one
\* key the routine pressed
C15_Witness ==
    CrusherNotFound /\ notFoundCause = "timeout" /\ hfiKeys = 1 /\ pc = "rc_for"

\* the worker is inside rotate_camera_until
InRotation == pc \in RotSites \cup {"rot_while", "rot_ocr"}

\* C16: rotate_camera_until returns true (the caller goes on to press E) only
\* from the text check of the frame captured in the same iteration, with the
\* input backend and text recognition available; without either, no
\* acquisition ever succeeds
C16_SuccessOnlyOnConfirmation ==
    /\ [][ (InRotation /\ pc' \in {"open_press", "hfi_e"})
              => (pc = "rot_ocr" /\ hasOcr /\ hasPyautogui
                    /\ logged' = "Detected keyword") ]_vars
    /\ [][ (pc' = "rot_ocr" /\ pc # "rot_ocr")
              => (pc = "rot_shot" /\ gpc = "returned") ]_vars
    /\ []((~hasOcr \/ ~hasPyautogui) => (~acquired /\ pc \notin Sites \ RotSites))

\* C16 witness: the forge was acquired: the keyword was read in the captured
\* frame and run_cycle goes on to open the interface
C16_Witness ==
    /\ pc = "open_press" /\ gpc = "enter" /\ acquired
    /\ logged = "Detected keyword" /\ hasOcr

\* the loop of rotate_camera_until is at its head with the timeout used up: it
\* returns false now, no call of this acquisition having waited in a Pause
TimedOut == pc = "rot_while" /\ elapsed >= timeout /\ ~rotBlocked

C18_BoundedIterations ==
    /\ [](InRotation => iters * PollInterval < timeout + PollInterval)
    /\ ((InRotation /\ ~pause) ~> (~InRotation \/ pause))

\* C18 witness: an acquisition that Pause never blocked gives up after
\* timeout / pollInterval iterations
C18_Witness == TimedOut /\ iters * PollInterval >= timeout /\ target = "crusher"

\* C19: no step of the hotkey callbacks, the guard or run_bot clears the Stop
\* flag once it is set
C19_StopMonotonic == [][stop => stop']_vars

\* C19 witness: run_bot has returned from a run in which the stop hotkey set
\* Stop during a collect round, with Stop still set and Pause clear
C19_Witness == pc = "returned" /\ stop /\ stopPhase = "collecting" /\ ~pause

\* C20: a step of the worker that catches an exception logs a message
C20_CaughtErrorsLogged == caught # "none" => logged # "none"

\* C21: a failure of a perception call (matching or text recognition on a
\* capture the primitive returned) is non-fatal: it never leaves run_cycle
C21_PerceptionNonFatal ==
    [][ (pc \in Sites /\ gpc = "returned") => pc' # "rc_raised" ]_vars

\* the place of profession p in professions_order
OrderIndex(p) == CHOOSE i \in 1..Len(order) : order[i] = p

\* C22: the professions run in a pass are known, enabled and listed ones, in
\* the configured order; a pass that Stop did not cut short has run every
\* such profession; with Stop clear each run_cycle is followed by the
\* inter-profession delay, the next profession starts only after that delay,
\* and the loop starts another pass
C22_PassInOrder ==
    /\ [](\A i \in 1..Len(ran) :
             /\ ran[i] \in Professions /\ enabled[ran[i]]
             /\ \E j \in 1..Len(order) : order[j] = ran[i])
    /\ [](\A i, j \in 1..Len(ran) :
             i < j => OrderIndex(ran[i]) < OrderIndex(ran[j]))
    /\ [][ (pc = "for" /\ pc' = "while" /\ ~stop)
              => \A j \in 1..Len(order) :
                    (order[j] \in Professions /\ enabled[order[j]])
                       => \E i \in 1..Len(ran) : ran[i] = order[j] ]_vars
    /\ [][ (pc = "post" /\ ~stop) => pc' \in {"post", "delay", "kbint"} ]_vars
    /\ [][ (midx' # midx /\ midx' > 1) => pc = "delay" ]_vars
    /\ [][ (pc = "while" /\ ~stop) => pc' \in {"while", "for", "kbint"} ]_vars

\* C22 witness: a pass over an order that lists an unknown and a disabled
\* profession is complete, only the enabled one has run, Stop is clear
C22_Witness ==
    /\ pc = "while" /\ ~stop
    /\ ran = <<"jeweling">> /\ order[1] = "unknown" /\ ~enabled["blacksmithing"]

Occurrences(res) == {p \in Positions : res[p] = ExactScore}
Overlap(p, q) ==
    /\ p # q
    /\ p[1] - q[1] \in -1..1 /\ p[2] - q[2] \in -1..1

\* C24: for non-overlapping exact copies of the template,
\* find_items_by_template returns one result per copy, in scan order, in
\* absolute coordinates, also when positions next to a copy reach the
\* threshold
C24_ExactlyK ==
    ( /\ vfn = "find_items_by_template" /\ vexc = "none"
      /\ vin.threshold <= ExactScore
      /\ \A p, q \in Occurrences(vin.res) : ~Overlap(p, q)
      /\ \A p \in Positions :
            vin.res[p] >= vin.threshold =>
               \/ p \in Occurrences(vin.res)
               \/ \E q \in Occurrences(vin.res) : Overlap(p, q) )
    => /\ Len(vret) = Cardinality(Occurrences(vin.res))
       /\ \A i \in 1..Len(vret) :
             <<vret[i][1] - vin.region[1], vret[i][2] - vin.region[2]>>
                \in Occurrences(vin.res)
       /\ \A i, j \in 1..Len(vret) :
             i < j => \/ vret[i][2] < vret[j][2]
                      \/ vret[i][2] = vret[j][2] /\ vret[i][1] < vret[j][1]

\* the text recognised in the frame: the non-empty words, joined by blanks
RECURSIVE RecognisedText(_)
RecognisedText(words) ==
    IF words = <<>> THEN <<>>
    ELSE IF Head(words) = <<>> THEN RecognisedText(Tail(words))
    ELSE Head(words) \o <<" ">> \o RecognisedText(Tail(words))

\* C25: locate_text returns a box whenever the target occurs, case
\* ignored, in the text recognised in the frame, and the box is that of the
\* first box in scan order that holds a match
C25_FindsSubstring ==
    (vfn = "locate_text" /\ vexc = "none" /\ ~vin.fails) =>
        /\ Contains(Lower(vin.target), Lower(RecognisedText(vin.words)))
              => vret # <<>>
        /\ vret # <<>> =>
              \E i \in 1..Len(vin.words) :
                 /\ vret = <<Box(i)>>
                 /\ \A j \in 1..(i - 1) :
                       ~Contains(Strip(Lower(vin.target)), Lower(vin.words[j]))

\* the reference colour of a grade label
ColourOf(g) ==
    GradeColours[CHOOSE k \in 1..Len(GradeColours) : GradeColours[k][1] = g][2]

\* C26: detect_item_grade returns one of the five grade labels, never
\* none; no reference colour is closer to the averaged border colour than the
\* one of the label returned; an average closest to the "zelenyj" reference
\* gives "zelenyj"
C26_ClosestGrade ==
    vfn = "detect_item_grade" /\ vexc # "pending" =>
        /\ vexc = "none" /\ Len(vret) = 1
        /\ \E k \in 1..Len(GradeColours) : GradeColours[k][1] = vret[1]
        /\ \A k \in 1..Len(GradeColours) :
              Dist(BorderPixels(vin.img), ColourOf(vret[1]))
                 <= Dist(BorderPixels(vin.img), GradeColours[k][2])
        /\ (\A k \in 1..Len(GradeColours) :
               GradeColours[k][1] # "zelenyj" =>
                  Dist(BorderPixels(vin.img), ColourOf("zelenyj"))
                     < Dist(BorderPixels(vin.img), GradeColours[k][2]))
           => vret = <<"zelenyj">>

\* C26 witness: an icon whose border is not all of the reference green is
\* graded "zelenyj"
C26_Witness ==
    /\ vfn = "detect_item_grade" /\ vret = <<"zelenyj">>
    /\ vin.img[<<1, 1>>] # <<0, 255, 0>>

\* C27: select_recipe of an item that defines a recipe-icon trigger template
\* starts with the capture for the template match, ahead of the OCR scan
C27_TemplateFirst ==
    [][ ( /\ pc = "open_press" /\ HasItemTrigger(item)
          /\ pc' \in SelectSites \cup {"sr_for"} )
        => pc' = "sr_tshot" ]_vars

\* how often call site s occurs among the completed device actions of the
\* helper method that is running
Count(s) == Cardinality({i \in 1..Len(trail) : trail[i] = s})
InSelectRecipe == pc \in SelectSites \cup {"sr_for"}

\* C28: one select_recipe call captures the recipe list for at most 6 OCR
\* scans, scrolls at most 6 times and clicks a recipe at most once, the click
\* ending the call; after the sixth scroll it logs the warning and returns,
\* and start_craft follows
C28_BoundedSelect ==
    /\ [](InSelectRecipe =>
            /\ Count("sr_shot") <= 6 /\ Count("sr_scroll") <= 6
            /\ Count("sr_click") + Count("sr_tclick") <= 1
            /\ Count("sr_click") + Count("sr_tclick") = 1
                  => pc \in {"sr_click", "sr_tclick"} /\ gpc = "returned")
    /\ [][ (pc \in {"sr_click", "sr_tclick"} /\ gpc = "returned")
              => pc' \in {pc, "sc_begin", "kbint"} ]_vars
    /\ [][ (pc = "sr_for" /\ Count("sr_scroll") = 6)
              => \/ pc' \in {"sr_for", "kbint"}
                 \/ /\ pc' = "sc_begin" /\ exc' = "none"
                    /\ logged' = "Could not locate recipe" ]_vars

\* C28 witness: select_recipe has returned after six scans and six scrolls
\* without a click, with the warning logged, and start_craft is about to run
C28_Witness ==
    /\ pc = "sc_begin" /\ logged = "Could not locate recipe"
    /\ Count("sr_shot") = 6 /\ Count("sr_scroll") = 6 /\ Count("sr_click") = 0

\* the click and key-press sites of start_craft among its completed actions
Triggered == {i \in 1..Len(trail) : trail[i] \in CraftTriggers}

\* the place of a call site of start_craft in the chain of strategies
ChainRank(s) ==
    CASE s \in {"sc_tshot", "sc_tclick"} -> 1
      [] s \in {"sc_oshot", "sc_oclick"} -> 2
      [] s \in {"sc_fshot", "sc_fclick"} -> 3
      [] OTHER -> 4

\* C29: with a working input device one start_craft call that returns has
\* issued exactly one craft trigger, its last action; the strategies run in
\* the order template, OCR, fallback icon, key press, none after a trigger,
\* and the key is pressed only after the captures of the OCR and icon
\* strategies (and of the template strategy, if the item has a create
\* trigger) led to no click
C29_OneTrigger ==
    /\ [](pc \in CraftSites =>
            /\ Cardinality(Triggered) <= 1
            /\ Triggered # {} => pc \in CraftTriggers /\ gpc = "returned"
            /\ \A i, j \in 1..Len(trail) :
                  i < j => ChainRank(trail[i]) <= ChainRank(trail[j])
            /\ \A i \in 1..Len(trail) : ChainRank(trail[i]) <= ChainRank(pc))
    /\ []((pc = "sc_press" /\ hasPyautogui) =>
            /\ Count("sc_oshot") = 1 /\ Count("sc_fshot") = 1
            /\ HasCreateTrigger(item) => Count("sc_tshot") = 1)
    /\ [][ (pc \in CraftSites /\ pc' = "col_for" /\ hasPyautogui)
              => /\ Cardinality(Triggered) = 1
                 /\ pc \in CraftTriggers /\ gpc = "returned" ]_vars

\* C29 witness: the key press of start_craft has returned after the template,
\* OCR and fallback strategies produced no click
C29_Witness ==
    /\ pc = "sc_press" /\ gpc = "returned"
    /\ trail = <<"sc_tshot", "sc_oshot", "sc_fshot", "sc_press">>

\* the states of the per-item cycle, numbered in their forward order
InCycle == pc \in Sites \cup CycleLabels
CycleRank ==
    CASE pc \in RotSites \cup {"rot_while", "rot_ocr"} ->
            IF target = "forge" THEN 1 ELSE 7
      [] pc = "open_press" -> 2
      [] pc \in SelectSites \cup {"sr_for"} -> 3
      [] pc \in CraftSites \cup {"sc_begin"} -> 4
      [] pc \in CollectSites \cup {"col_for"} -> 5
      [] pc = "hfi_esc" -> 6
      [] OTHER -> 7
CycleRankNext ==
    CASE pc' \in RotSites \cup {"rot_while", "rot_ocr"} ->
            IF target' = "forge" THEN 1 ELSE 7
      [] pc' = "open_press" -> 2
      [] pc' \in SelectSites \cup {"sr_for"} -> 3
      [] pc' \in CraftSites \cup {"sc_begin"} -> 4
      [] pc' \in CollectSites \cup {"col_for"} -> 5
      [] pc' = "hfi_esc" -> 6
      [] OTHER -> 7
InCycleNext == pc' \in Sites \cup CycleLabels

\* run_cycle goes on to the next item
ItemEnds == InCycle /\ pc' = "rc_for"

\* C30 as stated: the cycle of an item only moves forward, except from
\* InventoryFull or Dismantling back to Crafting, and ends early only when the
\* forge is not acquired
C30_OnlyResumeGoesBack ==
    /\ [][ (InCycle /\ InCycleNext)
              => \/ CycleRankNext >= CycleRank
                 \/ CycleRank \in {6, 7} /\ CycleRankNext = 4 ]_vars
    /\ [][ ItemEnds => (CycleRank = 1 /\ notFoundCause' # "none") \/ CycleRank = 7 ]_vars

\* C30 amended: the cycle of an item only moves forward, except from
\* CollectingOutput back to Crafting after a cleared round, and ends early
\* only when the forge is not acquired
C30_OnlyNewBatchGoesBack ==
    /\ [][ (InCycle /\ InCycleNext)
              => \/ CycleRankNext >= CycleRank
                 \/ CycleRank = 5 /\ CycleRankNext = 4 ]_vars
    /\ [][ ItemEnds => (CycleRank = 1 /\ notFoundCause' # "none") \/ CycleRank = 7 ]_vars

\* C30 witness: a collect round cleared the output and the cycle of the same
\* item is back in Crafting
C30_Witness == pc = "sc_begin" /\ slot > OutputSlots /\ acquired

\* the orders in which the kinds of action of one item may follow each other
C31_Order ==
    {<<"open", "recipe">>, <<"recipe", "trigger">>,
     <<"trigger", "collect">>, <<"collect", "trigger">>}

\* C31: for an item whose forge acquisition succeeded the actions are issued
\* in the order interaction key press, recipe selection, craft trigger,
\* collect round, and from then on craft triggers and collect rounds
\* alternate: a collect round starts after exactly one craft trigger issued
\* since the previous round started
C31_TriggerCollectAlternate ==
    [][/\ (lastAct' # lastAct /\ lastAct' # "none")
            => /\ acquired
               /\ \/ lastAct = "none" /\ lastAct' = "open"
                  \/ <<lastAct, lastAct'>> \in C31_Order
       /\ (pc \in CraftTriggers /\ gpc = "act" /\ gpc' = "returned")
            => trigs = 0 /\ lastAct \in {"recipe", "collect"}
       /\ (pc = "col_click" /\ gpc = "act" /\ gpc' = "returned")
            => IF slot = 1 THEN trigs = 1 /\ lastAct = "trigger"
                           ELSE trigs = 0 /\ lastAct = "collect"]_vars

\* C31 witness: a collect round has been carried out for the item and the
\* craft trigger of the next batch is at its device action
C31_Witness ==
    lastAct = "collect" /\ trigs = 0 /\ pc \in CraftTriggers /\ gpc = "act"

\* C32: for a grade selected for dismantling there are at most 3 capture and
\* scan attempts; an attempt with no match issues one scroll and retries, an
\* attempt with matches issues one right-click per position the scan
\* returned, in turn, and nothing else is right-clicked
C32_ThreeAttempts ==
    [][/\ pc \in DismantleSites => attempt < DismantleAttempts
       /\ (pc' \in {"dm_scroll", "dm_click"} /\ pc # pc')
            => /\ pc = "dm_shot" /\ gpc = "returned"
               /\ pc' = IF positions' = <<>> THEN "dm_scroll" ELSE "dm_click"
       /\ (pc = "dm_scroll" /\ gpc = "returned" /\ Resumes)
            => pc' = "dm_for" /\ attempt' = attempt + 1
       /\ pc = "dm_click"
            => /\ positions # <<>>
               /\ attempt = 0 => Head(positions) \notin clicked
       /\ (pc = "dm_click" /\ Resumes /\ pc' \in {"dm_click", "dm_for"})
            => /\ positions' = Tail(positions)
               /\ pc' = IF positions' = <<>> THEN "dm_for" ELSE "dm_click"
               /\ attempt' = IF positions' = <<>> THEN attempt + 1 ELSE attempt
               /\ clicked' \subseteq clicked \cup {Head(positions)}]_vars

\* C32 witness: the third attempt for a grade has right-clicked the first of
\* the two positions its scan returned
C32_Witness ==
    /\ pc = "dm_click" /\ gpc = "act" /\ attempt = DismantleAttempts - 1
    /\ positions = <<2>> /\ 1 \in clicked

\* C33 as stated: scanning of a grade stops once an attempt has found nothing:
\* the step that ends such an attempt does not lead to another capture for
\* the grade, and no position already right-clicked for the grade is
\* right-clicked again
C33_StopsWhenNothingNew ==
    [][/\ (pc = "dm_scroll" /\ Resumes)
            => ~(pc' = "dm_for" /\ DismantleContinues')
       /\ (pc = "dm_click" /\ gpc = "act" /\ gpc' = "returned")
            => Head(positions) \notin clicked]_vars

\* C34: the slot check judges the slot still occupied (bag_full, which is
\* what raises InventoryFull) exactly when, with an empty-slot template, the
\* match returned no position or raised, and, without one, the mean
\* luminance of the capture is below 80
C34_SlotJudgement ==
    (vfn = "check_slot" /\ vexc = "none")
        => vret[1] = IF vin.hasTemplate
                     THEN vin.m \in {"none", "raise"}
                     ELSE vin.ok /\ vin.lum < 80

\* C34 witness: without a template a capture of mean luminance 80 has been
\* judged cleared
C34_Witness ==
    /\ vfn = "check_slot" /\ vexc = "none" /\ ~vin.hasTemplate
    /\ vin.ok /\ vin.lum = 80 /\ vret = <<FALSE>>

\* a call is inside the Pause wait of the guard: in the loop body, or back at
\* the loop test after a sleep
InPauseWait == gpc \in {"pstop", "sleep"} \/ (gpc = "pause" /\ blocked)

\* C35: the Pause wait has no timeout: while a call waits run_bot is inside
\* that call, the worker (not interrupted by Ctrl+C) leaves the wait only to
\* the device action with Pause clear or by RuntimeError with Stop set, and a
\* guard that tests Pause while it is set never lets the device action happen
C35_NoPauseTimeout ==
    [][/\ InPauseWait => pc \in Sites
       /\ (InPauseWait /\ ~InPauseWait' /\ pc' # "kbint")
            => \/ ~pause /\ gpc' = "act"
               \/ stop /\ gpc' = "raised" /\ exc' = "RuntimeError"
       /\ (gpc = "pause" /\ pause) => gpc' # "act"
       /\ (InPauseWait /\ pause /\ ~stop /\ pause' /\ ~stop' /\ pc' # "kbint")
            => InPauseWait' /\ pc' = pc]_vars

\* C35 witness: a call has slept in the wait and is back at the loop test,
\* Pause still set and Stop clear
C35_Witness == gpc = "pause" /\ blocked /\ pause /\ ~stop /\ pc = "col_click"

\* C36: after Stop is set at most one more device action is performed in the
\* whole run, by a call that began before Stop was set; a guard that makes
\* its first check with Stop set raises, and a call made with Stop set never
\* reaches its device action
C36_OneActionAfterStop ==
    [][/\ actsAfterStop' <= 1
       /\ (gpc = "stop" /\ stop /\ gpc' # gpc /\ pc' = pc) => gpc' = "raised"
       /\ (gpc = "act" /\ stop /\ gpc' # gpc /\ pc' = pc)
            => ~callStop /\ actsAfterStop = 0
       /\ callStop => gpc \notin {"act", "returned"}]_vars

\* C36 witness: the call that was past its guard when Stop was set has
\* performed its device action, and a call made afterwards has raised
\* RuntimeError
C36_Witness ==
    /\ actsAfterStop = 1 /\ stop /\ callStop
    /\ gpc = "raised" /\ exc = "RuntimeError"

\* detection attempts an acquisition that Pause never blocks has made at
\* least when it gives up: its iterations take at most the drag, the capture
\* and text check and the poll sleep
UnpausedAttempts ==
    (timeout + DragDuration + MaxOcrTime + PollInterval - 1)
        \div (DragDuration + MaxOcrTime + PollInterval)

\* C37 as stated: time spent in the Pause wait does not count against the
\* acquisition timeout: an acquisition that gives up has made as many
\* detection attempts as one that was never paused
C37_PauseDoesNotCount ==
    (pc = "rot_while" /\ elapsed >= timeout) => iters >= UnpausedAttempts

\* C38 as stated: dismantling scans and right-clicks for a grade only with
\* the current item's own template for that grade
C38_OwnTemplatesOnly ==
    (pc \in DismantleSites \cup {"dm_for"})
        => ItemTemplates(item)[GradeOrder[grade]]

\* C39: with Stop set at the check before a module, the module's run_cycle is
\* not invoked; with Stop set at the check after a module's run_cycle (ended
\* normally or by an exception), the delay is not slept and the for loop is
\* left, and once Stop is set no further module is invoked
C39_StopSkipsModules ==
    [][/\ (pc \in {"for", "post"} /\ stop /\ pc' # pc /\ pc' # "kbint")
            => pc' = "while" /\ ran' = ran
       /\ (pc' = "delay" /\ pc # "delay") => ~stop /\ pc = "post"
       /\ stop => ran' = ran]_vars

\* C39 witness: run_cycle of the second of three modules ended by an
\* exception with Stop set, and the for loop has been left without the delay
\* and without the third module
C39_Witness ==
    /\ pc = "while" /\ stop /\ rcAborted
    /\ midx = 2 /\ Len(ran) = 2 /\ Len(modules) = 3

====
